---- MODULE Spec2Model ----
(***************************************************************************)
(* A model of train_gpt2.py: the token shard loader (DataLoaderLite), the   *)
(* learning-rate schedule (get_lr), the pretrained-weight import            *)
(* (GPT.from_pretrained) and the training script's control flow.            *)
(***************************************************************************)
EXTENDS Integers, Sequences, FiniteSets, TLC

VARIABLES
    \* ---- DataLoaderLite (two instances over the same shard files) ----
    B,              \* micro batch size handed to the constructor
    T,              \* sequence length handed to the constructor
    num_processes,  \* number of workers handed to the constructor
    disk,           \* the sorted shard files: a sequence of token sequences
    loaders,        \* instance -> [process_rank, current_shard, tokens, current_position]
    ret,            \* instance -> what the last call returned (None after reset)
    calls,          \* instance -> number of next_batch calls since the last reset
    \* ---- get_lr ----
    lr_it,          \* the step index get_lr is called with
    lr_ret,         \* what get_lr returned (None before the call)
    \* ---- the training script, one process of the run ----
    pc,             \* the statement the script is at
    ddp,            \* is this a ddp run (RANK is set)
    cuda,           \* torch.cuda.is_available()
    ddp_world_size, \* WORLD_SIZE, or 1 in a vanilla run
    shards_found,   \* split -> whether edu_fineweb10B holds shard files of it
    pg,             \* the process group: "none", "initialized", "destroyed"
    step,           \* the loop variable of the training loop
    micro_step,     \* the loop variable of the accumulation loop
    opt_updates,    \* number of optimizer.step() calls made
    require_backward_grad_sync,  \* the DDP wrapper's flag
    reducer_prepared,            \* the DDP wrapper armed its gradient hooks
    imp_pc,                      \* where a call of GPT.from_pretrained is
    sd,                          \* the state dict of the model being filled
    sd_keys,                     \* its keys, the mask buffers discarded
    sd_hf,                       \* the state dict of the pretrained model
    sd_keys_hf,                  \* its keys, the mask buffers discarded
    imp_i,                       \* the position of the copying loop in sd_keys_hf
    imp_error,                   \* the exception that ended the import
    trace,          \* what the current optimizer step has done so far
    error           \* the exception that ended the script, or "none"

loaderVars == <<B, T, num_processes, disk, loaders, ret, calls>>

lrVars == <<lr_it, lr_ret>>

trainVars == <<pc, ddp, cuda, ddp_world_size, shards_found, pg, step, micro_step,
               opt_updates, require_backward_grad_sync, reducer_prepared, trace, error>>

importVars == <<imp_pc, sd, sd_keys, sd_hf, sd_keys_hf, imp_i, imp_error>>

vars == <<loaderVars, lrVars, trainVars, importVars>>

-----------------------------------------------------------------------------
(* Bounds of the loader model *)

MaxB == 2
MaxT == 2
MaxProcs == 2
MaxShardLen == 9
MaxCalls == 5

\* the number of shard files found for the split
ShardCounts == {1, 2}

\* the two loader instances that are compared
Instances == {1, 2}

-----------------------------------------------------------------------------
(* Shard files *)

\* Token j (0-based) of shard file f (1-based): every position of every file
\* holds its own token id, so a returned token names the place it came from.
TokenAt(f, j) == (f - 1) * (MaxShardLen + 1) + j

ShardFile(f, len) == [j \in 1..len |-> TokenAt(f, j - 1)]

\* load_tokens: the file's uint16 token ids widened to int32, then to long
load_tokens(filename) == [j \in 1..Len(disk[filename]) |-> disk[filename][j] % 65536]

-----------------------------------------------------------------------------
(* Python sequence operations used by next_batch *)

Min(a, b) == IF a < b THEN a ELSE b

\* s[lo:hi] for 0 <= lo, 0 <= hi: Python clamps both ends to len(s)
Slice(s, lo, hi) ==
    LET h == Min(hi, Len(s))
    IN  IF lo >= h THEN <<>> ELSE SubSeq(s, lo + 1, h)

\* s[:-1]
DropLast(s) == IF Len(s) = 0 THEN <<>> ELSE SubSeq(s, 1, Len(s) - 1)

\* s[1:]
DropFirst(s) == IF Len(s) = 0 THEN <<>> ELSE SubSeq(s, 2, Len(s))

\* Tensor.view(b, t) raises unless the tensor holds exactly b*t elements
ViewFails(s, b, t) == Len(s) # b * t

View(s, b, t) == [r \in 1..b |-> [c \in 1..t |-> s[(r - 1) * t + c]]]

None == [kind |-> "None"]

Raised == [kind |-> "raise"]

\* the parts of the program a specification leaves aside stay as they start
LrIdle == lr_it = 0 /\ lr_ret = None

TrainIdle ==
    /\ pc = "idle" /\ ddp = FALSE /\ cuda = FALSE /\ ddp_world_size = 1
    /\ shards_found = <<>> /\ pg = "none" /\ step = 0 /\ micro_step = 0
    /\ opt_updates = 0 /\ require_backward_grad_sync = TRUE
    /\ reducer_prepared = FALSE
    /\ trace = <<>> /\ error = "none"

LoaderIdle ==
    /\ B = 1 /\ T = 1 /\ num_processes = 1
    /\ disk = <<>> /\ loaders = <<>> /\ ret = <<>> /\ calls = <<>>

ImportIdle ==
    /\ imp_pc = "idle" /\ sd = <<>> /\ sd_keys = <<>> /\ sd_hf = <<>>
    /\ sd_keys_hf = <<>> /\ imp_i = 0 /\ imp_error = "none"

-----------------------------------------------------------------------------
(* DataLoaderLite *)

\* a reset that rewinds the index and the cursor but keeps the loaded buffer
ResetState_NoReload(ld) ==
    [ld EXCEPT !.current_shard = 0,
               !.current_position = B * T * ld.process_rank]

\* reset(): state, init at shard zero
ResetState(ld) ==
    [ld EXCEPT !.current_shard = 0,
               !.tokens = load_tokens(1),
               !.current_position = B * T * ld.process_rank]

\* a window without the extra token the targets need
Buf_NoTarget(ld) == Slice(ld.tokens, ld.current_position, ld.current_position + B * T)

\* buf = self.tokens[self.current_position : self.current_position + B*T + 1]
Buf(ld) == Slice(ld.tokens, ld.current_position, ld.current_position + B * T + 1)

\* the (x, y) that next_batch returns, or the exception view() raises
BatchOf(ld) ==
    LET buf == Buf(ld)
    IN  IF ViewFails(DropLast(buf), B, T) \/ ViewFails(DropFirst(buf), B, T)
        THEN Raised
        ELSE [kind |-> "batch",
              x |-> View(DropLast(buf), B, T),
              y |-> View(DropFirst(buf), B, T)]

\* a cursor that steps over this worker's batch only
Advance_OneWorker(ld) ==
    [ld EXCEPT !.current_position = ld.current_position + B * T]

\* self.current_position += B * T * self.num_processes
Advance(ld) ==
    [ld EXCEPT !.current_position = ld.current_position + B * T * num_processes]

\* the test without the extra target token
ShardExhausted_NoPlusOne(ld) ==
    ld.current_position + B * T * num_processes > Len(ld.tokens)

\* if self.current_position + (B * T * self.num_processes + 1) > len(self.tokens)
ShardExhausted(ld) ==
    ld.current_position + (B * T * num_processes + 1) > Len(ld.tokens)

\* a rollover that rewinds every rank to position 0
NextShard_CursorZero(ld) ==
    LET nxt == (ld.current_shard + 1) % Len(disk)
    IN  [ld EXCEPT !.current_shard = nxt,
                   !.tokens = load_tokens(nxt + 1),
                   !.current_position = 0]

\* the body of that if: move to the next shard, load it, rewind the cursor
NextShard(ld) ==
    LET nxt == (ld.current_shard + 1) % Len(disk)
    IN  [ld EXCEPT !.current_shard = nxt,
                   !.tokens = load_tokens(nxt + 1),
                   !.current_position = B * T * ld.process_rank]

\* the loader after a next_batch call that returned
AfterBatch(ld) ==
    LET adv == Advance(ld)
    IN  IF ShardExhausted(adv) THEN NextShard(adv) ELSE adv

\* DataLoaderLite.__init__ followed by self.reset()
NewLoader(rank) ==
    ResetState([process_rank |-> rank, current_shard |-> 0,
                tokens |-> <<>>, current_position |-> 0])

LoaderInit ==
    /\ B \in 1..MaxB
    /\ T \in 1..MaxT
    /\ num_processes \in 1..MaxProcs
    /\ \E n \in ShardCounts :
         \E lens \in [1..n -> 1..MaxShardLen] :
            disk = [f \in 1..n |-> ShardFile(f, lens[f])]
    /\ \E r1 \in 0..(num_processes - 1), r2 \in 0..(num_processes - 1) :
         /\ r1 <= r2
         /\ loaders = (1 :> NewLoader(r1)) @@ (2 :> NewLoader(r2))
    /\ ret = [i \in Instances |-> None]
    /\ calls = [i \in Instances |-> 0]

\* loader.reset()
Reset(i) ==
    /\ loaders' = [loaders EXCEPT ![i] = ResetState(loaders[i])]
    /\ ret' = [ret EXCEPT ![i] = None]
    /\ calls' = [calls EXCEPT ![i] = 0]
    /\ UNCHANGED <<B, T, num_processes, disk>>
    /\ UNCHANGED <<lrVars, trainVars, importVars>>

\* loader.next_batch(): view() raises before the cursor is touched
NextBatch(i) ==
    /\ calls[i] < MaxCalls
    /\ ret' = [ret EXCEPT ![i] = BatchOf(loaders[i])]
    /\ loaders' = [loaders EXCEPT ![i] =
                      IF BatchOf(loaders[i]) = Raised
                      THEN loaders[i] ELSE AfterBatch(loaders[i])]
    /\ calls' = [calls EXCEPT ![i] = calls[i] + 1]
    /\ UNCHANGED <<B, T, num_processes, disk>>
    /\ UNCHANGED <<lrVars, trainVars, importVars>>

-----------------------------------------------------------------------------
(* Python floats: IEEE-754 binary64 with round-to-nearest-even.  A mantissa   *)
(* of 53 bits does not fit the 32-bit integers of TLC, so naturals are        *)
(* kept as little-endian sequences of 14-bit limbs.                           *)

LimbBits == 14

LimbBase == 2 ^ LimbBits

RECURSIVE BNorm(_)
\* drop the leading (most significant) zero limbs
BNorm(a) ==
    IF a = <<>> THEN <<>>
    ELSE IF a[Len(a)] = 0 THEN BNorm(SubSeq(a, 1, Len(a) - 1)) ELSE a

RECURSIVE BFromInt(_)
BFromInt(n) == IF n = 0 THEN <<>> ELSE <<n % LimbBase>> \o BFromInt(n \div LimbBase)

Lo(a) == IF a = <<>> THEN 0 ELSE Head(a)

Hi(a) == IF a = <<>> THEN <<>> ELSE Tail(a)

RECURSIVE BAddC(_, _, _)
BAddC(a, b, carry) ==
    IF a = <<>> /\ b = <<>> THEN BFromInt(carry)
    ELSE LET x == Lo(a) + Lo(b) + carry
         IN  <<x % LimbBase>> \o BAddC(Hi(a), Hi(b), x \div LimbBase)

BAdd(a, b) == BAddC(a, b, 0)

RECURSIVE BSubB(_, _, _)
\* a - b - borrow, for a >= b + borrow
BSubB(a, b, borrow) ==
    IF a = <<>> THEN <<>>
    ELSE LET x == Lo(a) - Lo(b) - borrow
         IN  IF x < 0 THEN <<x + LimbBase>> \o BSubB(Hi(a), Hi(b), 1)
             ELSE <<x>> \o BSubB(Hi(a), Hi(b), 0)

BSub(a, b) == BNorm(BSubB(a, b, 0))

RECURSIVE BMulSmallC(_, _, _)
\* a * k + carry, for 0 <= k < 2^16
BMulSmallC(a, k, carry) ==
    IF a = <<>> THEN BFromInt(carry)
    ELSE LET x == Head(a) * k + carry
         IN  <<x % LimbBase>> \o BMulSmallC(Tail(a), k, x \div LimbBase)

BMulSmall(a, k) == BNorm(BMulSmallC(a, k, 0))

RECURSIVE BMul(_, _)
BMul(a, b) ==
    IF a = <<>> \/ b = <<>> THEN <<>>
    ELSE LET rest == BMul(a, Tail(b))
         IN  BAdd(BMulSmall(a, Head(b)), IF rest = <<>> THEN <<>> ELSE <<0>> \o rest)

RECURSIVE BDivRemSmall(_, _)
\* quotient (not normalised) and remainder of a by k, for 0 < k < 2^17
BDivRemSmall(a, k) ==
    IF a = <<>> THEN [q |-> <<>>, r |-> 0]
    ELSE LET hi == BDivRemSmall(Tail(a), k)
             cur == hi.r * LimbBase + Head(a)
         IN  [q |-> <<cur \div k>> \o hi.q, r |-> cur % k]

BDivSmall(a, k) == BNorm(BDivRemSmall(a, k).q)

BModSmall(a, k) == BDivRemSmall(a, k).r

Zeros(n) == [j \in 1..n |-> 0]

\* a * 2^n
BShl(a, n) ==
    IF a = <<>> THEN <<>>
    ELSE Zeros(n \div LimbBits) \o BMulSmall(a, 2 ^ (n % LimbBits))

\* a \div 2^n
BShr(a, n) ==
    IF Len(a) <= n \div LimbBits THEN <<>>
    ELSE BDivSmall(SubSeq(a, n \div LimbBits + 1, Len(a)), 2 ^ (n % LimbBits))

RECURSIVE IntBitLen(_)
IntBitLen(n) == IF n = 0 THEN 0 ELSE 1 + IntBitLen(n \div 2)

BBitLen(a) == IF a = <<>> THEN 0 ELSE LimbBits * (Len(a) - 1) + IntBitLen(a[Len(a)])

RECURSIVE BCmp(_, _)
\* -1, 0, 1 as a < b, a = b, a > b (both normalised)
BCmp(a, b) ==
    IF Len(a) # Len(b) THEN (IF Len(a) < Len(b) THEN -1 ELSE 1)
    ELSE IF a = <<>> THEN 0
    ELSE IF a[Len(a)] # b[Len(b)] THEN (IF a[Len(a)] < b[Len(b)] THEN -1 ELSE 1)
    ELSE BCmp(BNorm(SubSeq(a, 1, Len(a) - 1)), BNorm(SubSeq(b, 1, Len(b) - 1)))

BIsOdd(a) == a # <<>> /\ a[1] % 2 = 1

\* the significand of a binary64
MantBits == 53

\* a non-negative float: m * 2^e with m of exactly 53 bits, or zero
FZero == [m |-> <<>>, e |-> 0]

\* the binary64 nearest to m * 2^e (ties to even); sticky says that the exact
\* value lies strictly above m * 2^e and below (m+1) * 2^e
FRound(m, e, sticky) ==
    LET len == BBitLen(m)
    IN  IF len = 0 THEN FZero
        ELSE IF len <= MantBits
        THEN [m |-> BShl(m, MantBits - len), e |-> e - (MantBits - len)]
        ELSE LET s == len - MantBits
                 q == BShr(m, s)
                 r == BSub(m, BShl(q, s))
                 c == BCmp(r, BShl(<<1>>, s - 1))
                 up == c > 0 \/ (c = 0 /\ (sticky \/ BIsOdd(q)))
                 q1 == IF up THEN BAdd(q, <<1>>) ELSE q
             IN  IF BBitLen(q1) > MantBits
                 THEN [m |-> BShr(q1, 1), e |-> e + s + 1]
                 ELSE [m |-> q1, e |-> e + s]

\* float(n) for a small non-negative integer
FFromInt(n) == FRound(BFromInt(n), 0, FALSE)

\* a * b
FMul(a, b) == FRound(BMul(a.m, b.m), a.e + b.e, FALSE)

\* the exact sum or difference is formed at the smaller exponent, then rounded
FAdd(a, b) ==
    IF a.m = <<>> THEN b
    ELSE IF b.m = <<>> THEN a
    ELSE LET e == Min(a.e, b.e)
         IN  FRound(BAdd(BShl(a.m, a.e - e), BShl(b.m, b.e - e)), e, FALSE)

\* a - b for a >= b
FSub(a, b) ==
    IF b.m = <<>> THEN a
    ELSE LET e == Min(a.e, b.e)
         IN  FRound(BSub(BShl(a.m, a.e - e), BShl(b.m, b.e - e)), e, FALSE)

\* a / k for an integer 0 < k < 2^17: two limbs of extra quotient bits, and
\* the remainder as the sticky bit
FDivInt(a, k) ==
    LET n == BShl(a.m, 2 * LimbBits)
    IN  FRound(BDivSmall(n, k), a.e - 2 * LimbBits, BModSmall(n, k) # 0)

\* a <= b
FLe(a, b) ==
    IF a.m = <<>> THEN TRUE
    ELSE IF b.m = <<>> THEN FALSE
    ELSE IF a.e # b.e THEN a.e < b.e
    ELSE BCmp(a.m, b.m) <= 0

\* the decimal literal n / 10^k is read as the nearest binary64
FDecimal(n, tenpow) == FDivInt(FFromInt(n), tenpow)

-----------------------------------------------------------------------------
(* The learning-rate schedule *)

warmup_steps == 715

max_steps == 19073

\* the largest step index get_lr is tried with
MaxIt == 19076

\* max_lr = 6e-4
max_lr == FDecimal(6, 10000)

\* min_lr = max_lr * 0.1
min_lr == FMul(max_lr, FDecimal(1, 10))

\* assert 0 <= decay_ratio <= 1, for decay_ratio = p / q with q > 0: the
\* division is monotone and 0 and 1 are floats, so the test is one on p and q
DecayRatioOk(p, q) == 0 <= p /\ p <= q

\* 1.0 + math.cos(math.pi * decay_ratio) for decay_ratio = p / q in [0, 1].
\* The library cosine is taken on a grid of 2^8 ratios with 14 fraction bits,
\* cos(pi*u) ~ (1 - 4u^2) / (1 + u^2) for u <= 1/2 and mirrored above: it is
\* 1.0 at ratio 0 and -1.0 at ratio 1, as the library's is, and the sum with
\* 1.0 is exact in binary64.
OnePlusCos(p, q) ==
    LET g == 2 ^ 8
        one == 2 ^ LimbBits
        C(u) == ((g * g - 4 * u * u) * one) \div (g * g + u * u)
        c == IF 2 * p <= q THEN C((g * p) \div q) ELSE 0 - C((g * (q - p)) \div q)
    IN  FRound(BFromInt(one + c), 0 - LimbBits, FALSE)

\* a warmup that counts from 0 instead of 1
get_lr_NoPlusOne(it) ==
    IF it < warmup_steps
    THEN FDivInt(FMul(max_lr, FFromInt(it)), warmup_steps)
    ELSE IF it > max_steps
    THEN min_lr
    ELSE FAdd(min_lr, FMul(FMul(FDecimal(5, 10), OnePlusCos(it - warmup_steps, max_steps - warmup_steps)),
                           FSub(max_lr, min_lr)))

\* get_lr(it), when its assertion holds
get_lr(it) ==
    IF it < warmup_steps
    THEN \* 1) linear warmup: max_lr * (it+1) / warmup_steps
         FDivInt(FMul(max_lr, FFromInt(it + 1)), warmup_steps)
    ELSE IF it > max_steps
    THEN \* 2) past the decay: min_lr
         min_lr
    ELSE \* 3) coeff = 0.5 * (1.0 + cos(pi * decay_ratio));
         \*    min_lr + coeff * (max_lr - min_lr)
         FAdd(min_lr, FMul(FMul(FDecimal(5, 10), OnePlusCos(it - warmup_steps, max_steps - warmup_steps)),
                           FSub(max_lr, min_lr)))

\* the call raises AssertionError
get_lr_raises(it) ==
    /\ ~(it < warmup_steps)
    /\ ~(it > max_steps)
    /\ ~DecayRatioOk(it - warmup_steps, max_steps - warmup_steps)

LrInit ==
    /\ lr_it \in 0..MaxIt
    /\ lr_ret = None

\* lr = get_lr(step)
CallGetLr ==
    /\ lr_ret = None
    /\ lr_ret' = IF get_lr_raises(lr_it) THEN Raised
                 ELSE [kind |-> "float", val |-> get_lr(lr_it)]
    /\ UNCHANGED lr_it
    /\ UNCHANGED <<loaderVars, trainVars, importVars>>

InitLr == LoaderIdle /\ LrInit /\ TrainIdle /\ ImportIdle

NextLr == CallGetLr

SpecLr == InitLr /\ [][NextLr]_vars

\* b <= a and a - b is at most n units in the last place of a
WithinUlpsBelow(b, a, n) ==
    /\ FLe(b, a)
    /\ a.e = b.e
    /\ BCmp(BSub(a.m, b.m), BFromInt(n)) <= 0

\* what C8 says of the schedule apart from its value at warmup_steps
C8_Rest ==
    /\ lr_ret.kind = "float"
    /\ lr_it = 0 => lr_ret.val = FDivInt(max_lr, warmup_steps)
    /\ lr_it < warmup_steps =>
           lr_ret.val = FDivInt(FMul(max_lr, FFromInt(lr_it + 1)), warmup_steps)
    /\ (lr_it >= warmup_steps /\ lr_it <= max_steps) =>
           DecayRatioOk(lr_it - warmup_steps, max_steps - warmup_steps)
    /\ lr_it >= warmup_steps => FLe(get_lr(lr_it + 1), lr_ret.val)
    /\ lr_it = max_steps => lr_ret.val = min_lr
    /\ lr_it > max_steps => lr_ret.val = min_lr

-----------------------------------------------------------------------------
(* The training script.  The shard files of a run are not part of this        *)
(* specification: they are taken to hold enough tokens for every read, and a   *)
(* loader is kept as the number of batches pulled since its last reset.        *)

total_batch_size == 524288

micro_batch_size == 64

sequence_length == 1024

eval_interval == 100

val_loss_steps == 20

\* the loaders of the script, as indices of calls
train_loader == 1

val_loader == 2

\* the values WORLD_SIZE takes in a ddp run
WorldSizes == {1, 2, 3, 4, 8}

Splits == {"train", "val"}

\* grad_accum_steps = total_batch_size // (B * T * ddp_world_size)
grad_accum_steps == total_batch_size \div (B * T * ddp_world_size)

\* GPT.forward returns the pair (logits, loss), loss being None without targets
GPT_forward(with_targets) ==
    [kind |-> "tuple", logits |-> "logits",
     loss |-> IF with_targets THEN "loss" ELSE "None"]

\* v[:, -1, :] is defined on a tensor; a tuple takes integers and slices only
SubscriptRaises(v) == v.kind = "tuple"

\* model.require_backward_grad_sync = (micro_step == grad_accum_steps - 1)
SyncOnMicroStep(ms) == ms = grad_accum_steps - 1

Fail(err) ==
    /\ pc' = "crashed"
    /\ error' = err

TrainInit ==
    /\ pc = "launch"
    /\ ddp \in BOOLEAN
    /\ cuda \in BOOLEAN
    /\ ddp_world_size \in (IF ddp THEN WorldSizes ELSE {1})
    /\ shards_found \in [Splits -> BOOLEAN]
    /\ pg = "none"
    /\ step = 0 /\ micro_step = 0 /\ opt_updates = 0
    /\ require_backward_grad_sync = TRUE
    /\ reducer_prepared = FALSE
    /\ trace = <<>>
    /\ error = "none"
    /\ B = micro_batch_size /\ T = sequence_length
    /\ num_processes = ddp_world_size
    /\ disk = <<>> /\ loaders = <<>> /\ ret = <<>>
    /\ calls = <<0, 0>>

\* set up DDP: assert torch.cuda.is_available(); init_process_group(...)
Launch ==
    /\ pc = "launch"
    /\ IF ddp /\ ~cuda
       THEN Fail("AssertionError: for now i think we need CUDA for DDP") /\ UNCHANGED pg
       ELSE /\ pc' = "configure"
            /\ pg' = IF ddp THEN "initialized" ELSE pg
            /\ UNCHANGED error
    /\ UNCHANGED <<ddp, cuda, ddp_world_size, shards_found, step, micro_step,
                   opt_updates, require_backward_grad_sync, reducer_prepared, trace>>
    /\ UNCHANGED <<loaderVars, lrVars, importVars>>

\* assert total_batch_size % (B * T * ddp_world_size) == 0; grad_accum_steps = ...
Configure ==
    /\ pc = "configure"
    /\ IF total_batch_size % (B * T * ddp_world_size) # 0
       THEN Fail("AssertionError: make sure total_batch_size is divisible")
       ELSE pc' = "loaders" /\ UNCHANGED error
    /\ UNCHANGED <<ddp, cuda, ddp_world_size, shards_found, pg, step, micro_step,
                   opt_updates, require_backward_grad_sync, reducer_prepared, trace>>
    /\ UNCHANGED <<loaderVars, lrVars, importVars>>

\* train_loader = DataLoaderLite(...); val_loader = DataLoaderLite(...);
\* then the model, the DDP wrapper and the optimizer are made
MakeLoaders ==
    /\ pc = "loaders"
    /\ IF ~shards_found["train"] \/ ~shards_found["val"]
       THEN Fail("AssertionError: no shards found for split") /\ UNCHANGED calls
       ELSE /\ pc' = "for"
            /\ calls' = [calls EXCEPT ![train_loader] = 0, ![val_loader] = 0]
            /\ UNCHANGED error
    /\ UNCHANGED <<ddp, cuda, ddp_world_size, shards_found, pg, step, micro_step,
                   opt_updates, require_backward_grad_sync, reducer_prepared, trace>>
    /\ UNCHANGED <<B, T, num_processes, disk, loaders, ret, lrVars, importVars>>

\* for step in range(max_steps): ... ; after the loop, if ddp: destroy_process_group()
ForStep ==
    /\ pc = "for"
    /\ IF step < max_steps
       THEN /\ pc' = IF step % eval_interval = 0 THEN "validate" ELSE "train"
            /\ UNCHANGED pg
       ELSE /\ pc' = "done"
            /\ pg' = IF ddp THEN "destroyed" ELSE pg
    /\ UNCHANGED <<ddp, cuda, ddp_world_size, shards_found, step, micro_step,
                   opt_updates, require_backward_grad_sync, reducer_prepared, trace, error>>
    /\ UNCHANGED <<loaderVars, lrVars, importVars>>

\* model.eval(); val_loader.reset()
ValReset ==
    /\ pc = "validate"
    /\ calls' = [calls EXCEPT ![val_loader] = 0]
    /\ pc' = "val_batch"
    /\ UNCHANGED <<ddp, cuda, ddp_world_size, shards_found, pg, step, micro_step,
                   opt_updates, require_backward_grad_sync, reducer_prepared, trace, error>>
    /\ UNCHANGED <<B, T, num_processes, disk, loaders, ret, lrVars, importVars>>

\* for _ in range(val_loss_steps): x, y = val_loader.next_batch(); model(x, y)
ValBatch ==
    /\ pc = "val_batch"
    /\ calls[val_loader] < val_loss_steps
    /\ calls' = [calls EXCEPT ![val_loader] = calls[val_loader] + 1]
    /\ UNCHANGED <<pc, ddp, cuda, ddp_world_size, shards_found, pg, step, micro_step,
                   opt_updates, require_backward_grad_sync, reducer_prepared, trace, error>>
    /\ UNCHANGED <<B, T, num_processes, disk, loaders, ret, lrVars, importVars>>

\* if ddp: dist.all_reduce(val_loss_accum); print; then the test of the
\* sampling block, if step > 0 and step % 100 == 0
ValReduce ==
    /\ pc = "val_batch"
    /\ calls[val_loader] = val_loss_steps
    /\ pc' = IF step > 0 /\ step % eval_interval = 0 THEN "sample" ELSE "train"
    /\ UNCHANGED <<ddp, cuda, ddp_world_size, shards_found, pg, step, micro_step,
                   opt_updates, require_backward_grad_sync, reducer_prepared, trace, error>>
    /\ UNCHANGED <<loaderVars, lrVars, importVars>>

\* the sampling block: logits = model(xgen); logits = logits[:, -1, :]
Sample ==
    /\ pc = "sample"
    /\ IF SubscriptRaises(GPT_forward(FALSE))
       THEN Fail("TypeError: tuple indices must be integers or slices, not tuple")
       ELSE pc' = "train" /\ UNCHANGED error
    /\ UNCHANGED <<ddp, cuda, ddp_world_size, shards_found, pg, step, micro_step,
                   opt_updates, require_backward_grad_sync, reducer_prepared, trace>>
    /\ UNCHANGED <<loaderVars, lrVars, importVars>>

\* model.train(); optimizer.zero_grad(); loss_accum = 0.0
ZeroGrad ==
    /\ pc = "train"
    /\ trace' = <<[op |-> "zero_grad"]>>
    /\ micro_step' = 0
    /\ pc' = IF 0 < grad_accum_steps THEN "next_batch" ELSE "reduce_loss"
    /\ UNCHANGED <<ddp, cuda, ddp_world_size, shards_found, pg, step,
                   opt_updates, require_backward_grad_sync, reducer_prepared, error>>
    /\ UNCHANGED <<loaderVars, lrVars, importVars>>

\* x, y = train_loader.next_batch()
PullBatch ==
    /\ pc = "next_batch"
    /\ calls' = [calls EXCEPT ![train_loader] = calls[train_loader] + 1]
    /\ trace' = Append(trace, [op |-> "next_batch"])
    /\ pc' = "forward"
    /\ UNCHANGED <<ddp, cuda, ddp_world_size, shards_found, pg, step, micro_step,
                   opt_updates, require_backward_grad_sync, reducer_prepared, error>>
    /\ UNCHANGED <<B, T, num_processes, disk, loaders, ret, lrVars, importVars>>

\* logits, loss = model(x, y); loss = loss / grad_accum_steps.
\* model is the DistributedDataParallel wrapper in a ddp run: its forward,
\* with gradients enabled, reads require_backward_grad_sync and, when it is
\* set, prepares the reducer so that the hooks of the coming backward
\* all-reduce the gradients (torch's no_sync: "The forward pass should be
\* included inside the context manager, or else gradients will still be
\* synchronized").
Forward ==
    /\ pc = "forward"
    /\ reducer_prepared' = (ddp /\ require_backward_grad_sync)
    /\ trace' = Append(trace, [op |-> "forward"])
    /\ pc' = "backward"
    /\ UNCHANGED <<ddp, cuda, ddp_world_size, shards_found, pg, step, micro_step,
                   opt_updates, require_backward_grad_sync, error>>
    /\ UNCHANGED <<loaderVars, lrVars, importVars>>

\* if ddp: model.require_backward_grad_sync = (...); loss.backward().
\* The backward all-reduces the gradients when the forward prepared the
\* reducer, and leaves it unprepared.
Backward ==
    /\ pc = "backward"
    /\ require_backward_grad_sync' =
           IF ddp THEN SyncOnMicroStep(micro_step) ELSE require_backward_grad_sync
    /\ trace' = Append(trace, [op |-> "backward",
                               flag |-> ddp /\ require_backward_grad_sync',
                               sync |-> reducer_prepared])
    /\ reducer_prepared' = FALSE
    /\ micro_step' = micro_step + 1
    /\ pc' = IF micro_step + 1 < grad_accum_steps THEN "next_batch" ELSE "reduce_loss"
    /\ UNCHANGED <<ddp, cuda, ddp_world_size, shards_found, pg, step,
                   opt_updates, error>>
    /\ UNCHANGED <<loaderVars, lrVars, importVars>>

\* if ddp: dist.all_reduce(loss_accum, op=dist.ReduceOp.AVG)
ReduceLoss ==
    /\ pc = "reduce_loss"
    /\ trace' = IF ddp THEN Append(trace, [op |-> "all_reduce_loss"]) ELSE trace
    /\ pc' = "clip"
    /\ UNCHANGED <<ddp, cuda, ddp_world_size, shards_found, pg, step, micro_step,
                   opt_updates, require_backward_grad_sync, reducer_prepared, error>>
    /\ UNCHANGED <<loaderVars, lrVars, importVars>>

\* norm = torch.nn.utils.clip_grad_norm_(model.parameters(), 1.0)
ClipGrad ==
    /\ pc = "clip"
    /\ trace' = Append(trace, [op |-> "clip_grad_norm"])
    /\ pc' = "set_lr"
    /\ UNCHANGED <<ddp, cuda, ddp_world_size, shards_found, pg, step, micro_step,
                   opt_updates, require_backward_grad_sync, reducer_prepared, error>>
    /\ UNCHANGED <<loaderVars, lrVars, importVars>>

\* lr = get_lr(step); for param_group in optimizer.param_groups: ... = lr
SetLr ==
    /\ pc = "set_lr"
    /\ lr_it' = step
    /\ IF get_lr_raises(step)
       THEN Fail("AssertionError: decay_ratio") /\ lr_ret' = Raised /\ UNCHANGED trace
       ELSE /\ lr_ret' = [kind |-> "float", val |-> get_lr(step)]
            /\ trace' = Append(trace, [op |-> "set_lr"])
            /\ pc' = "optimizer_step"
            /\ UNCHANGED error
    /\ UNCHANGED <<ddp, cuda, ddp_world_size, shards_found, pg, step, micro_step,
                   opt_updates, require_backward_grad_sync, reducer_prepared>>
    /\ UNCHANGED <<loaderVars, importVars>>

\* optimizer.step(); the step's report; back to the head of the loop
OptimizerStep ==
    /\ pc = "optimizer_step"
    /\ trace' = Append(trace, [op |-> "optimizer.step"])
    /\ opt_updates' = opt_updates + 1
    /\ step' = step + 1
    /\ pc' = "for"
    /\ UNCHANGED <<ddp, cuda, ddp_world_size, shards_found, pg, micro_step,
                   require_backward_grad_sync, reducer_prepared, error>>
    /\ UNCHANGED <<loaderVars, lrVars, importVars>>

InitTrain == TrainInit /\ LrIdle /\ ImportIdle

NextTrain ==
    \/ Launch
    \/ Configure
    \/ MakeLoaders
    \/ ForStep
    \/ ValReset
    \/ ValBatch
    \/ ValReduce
    \/ Sample
    \/ ZeroGrad
    \/ PullBatch
    \/ Forward
    \/ Backward
    \/ ReduceLoss
    \/ ClipGrad
    \/ SetLr
    \/ OptimizerStep

SpecTrain == InitTrain /\ [][NextTrain]_vars

-----------------------------------------------------------------------------
(* Claims about the training script *)

\* the errors that end the script before the training loop is entered
SetupErrors ==
    {"AssertionError: for now i think we need CUDA for DDP",
     "AssertionError: make sure total_batch_size is divisible",
     "AssertionError: no shards found for split"}

\* the script is in its training loop, or has left it
InLoop == pc \notin {"launch", "configure", "loaders"} /\ error \notin SetupErrors

\* C6: the loop visits the step indices 0 .. max_steps-1 in increasing order
\* with exactly one optimizer update per index, the indices of validation and
\* sampling included, and ends only after the index max_steps-1
C6_LoopRunsEveryStep ==
    InLoop =>
        /\ step <= max_steps
        /\ pc = "for" => opt_updates = step
        /\ pc \in {"done", "crashed"} =>
               pc = "done" /\ step = max_steps /\ opt_updates = max_steps

IsPrefix(s, t) == Len(s) <= Len(t) /\ SubSeq(t, 1, Len(s)) = s

\* the events of micro-step k as C7 states them: the gradient
\* synchronization is on for the last micro-step only
ClaimedMicroStep(k) ==
    <<[op |-> "next_batch"], [op |-> "forward"],
      [op |-> "backward",
       flag |-> ddp /\ k = grad_accum_steps - 1,
       sync |-> ddp /\ k = grad_accum_steps - 1]>>

RECURSIVE ClaimedMicroSteps(_)
ClaimedMicroSteps(n) ==
    IF n = 0 THEN <<>> ELSE ClaimedMicroSteps(n - 1) \o ClaimedMicroStep(n - 1)

ClaimedStepTrace ==
    <<[op |-> "zero_grad"]>>
    \o ClaimedMicroSteps(grad_accum_steps)
    \o (IF ddp THEN <<[op |-> "all_reduce_loss"]>> ELSE <<>>)
    \o <<[op |-> "clip_grad_norm"], [op |-> "set_lr"], [op |-> "optimizer.step"]>>

\* C7: in every optimizer step the gradients are zeroed first, exactly
\* grad_accum_steps = total_batch_size / (B*T*world_size) batches are pulled
\* and back-propagated, the gradients are synchronized across workers by the
\* backward of the last micro-step and by no earlier one, and clipping, the
\* learning rate and the optimizer update follow in that order
C7_StepOrder ==
    InLoop =>
        /\ grad_accum_steps * (B * T * ddp_world_size) = total_batch_size
        /\ IsPrefix(trace, ClaimedStepTrace)
        /\ pc = "for" => calls[train_loader] = opt_updates * grad_accum_steps

\* C10: a process group that was initialised is destroyed on every exit of
\* the program, the normal one and the one a fatal error takes
C10_TeardownOnEveryExit ==
    (pc \in {"done", "crashed"} /\ pg # "none") => pg = "destroyed"

-----------------------------------------------------------------------------
(* GPT.from_pretrained *)

\* a key of a state dict is the sequence of the names its dots separate
EndsWith(k, w) == Len(k) >= Len(w) /\ SubSeq(k, Len(k) - Len(w) + 1, Len(k)) = w

Reverse(s) == [j \in 1..Len(s) |-> s[Len(s) + 1 - j]]

\* [k for k in keys if not k.endswith(w)]
RECURSIVE Discard(_, _)
Discard(keys, w) ==
    IF keys = <<>> THEN <<>>
    ELSE IF EndsWith(keys[1], w) THEN Discard(Tail(keys), w)
         ELSE <<keys[1]>> \o Discard(Tail(keys), w)

\* the stand-ins of n_embd and vocab_size
n_embd == 2

vocab_size == 3

wte_weight == <<"transformer", "wte", "weight">>

c_attn_weight == <<"transformer", "h", "0", "attn", "c_attn", "weight">>

c_attn_bias == <<"transformer", "h", "0", "attn", "c_attn", "bias">>

attn_bias == <<"transformer", "h", "0", "attn", "bias">>

attn_masked_bias == <<"transformer", "h", "0", "attn", "masked_bias">>

\* a tensor before the import wrote to it
Fresh == [from |-> <<>>, t |-> FALSE]

\* model.state_dict() of the from-scratch model, in the order of the modules:
\* an embedding, the mask buffer of the attention, a Linear weight (out, in)
\* and its bias
ModelStateDict ==
    <<[key |-> wte_weight, shape |-> <<vocab_size, n_embd>>, data |-> Fresh],
      [key |-> attn_bias, shape |-> <<1, 1, 2, 2>>, data |-> Fresh],
      [key |-> c_attn_weight, shape |-> <<3 * n_embd, n_embd>>, data |-> Fresh],
      [key |-> c_attn_bias, shape |-> <<3 * n_embd>>, data |-> Fresh]>>

Keys(d) == [j \in 1..Len(d) |-> d[j].key]

KeySet(d) == {d[j].key : j \in 1..Len(d)}

\* d[k] of a dict kept as the sequence of its items
Item(d, k) == d[CHOOSE j \in 1..Len(d) : d[j].key = k]

transposed ==
    {<<"attn", "c_attn", "weight">>, <<"attn", "c_proj", "weight">>,
     <<"mlp", "c_fc", "weight">>, <<"mlp", "c_proj", "weight">>}

\* any(k.endswith(w) for w in transposed)
IsTransposed(k) == \E w \in transposed : EndsWith(k, w)

\* an import that compares the shapes of a Conv1D weight without reversing
ShapeAsserted_NoReverse(k) == Item(sd_hf, k).shape = Item(sd, k).shape

\* assert sd_hf[k].shape[::-1] == sd[k].shape, or
\* assert sd_hf[k].shape == sd[k].shape
ShapeAsserted(k) ==
    IF IsTransposed(k)
    THEN Reverse(Item(sd_hf, k).shape) = Item(sd, k).shape
    ELSE Item(sd_hf, k).shape = Item(sd, k).shape

\* sd[k].copy_(sd_hf[k].t()), or sd[k].copy_(sd_hf[k])
CopyInto(d, k) ==
    [j \in 1..Len(d) |->
        IF d[j].key = k
        THEN [d[j] EXCEPT !.data = [from |-> k, t |-> IsTransposed(k)]]
        ELSE d[j]]

\* the checkpoints an import may be handed: of each parameter the checkpoint
\* has the tensor the model expects ("ok": a Conv1D weight is (in, out)), a
\* tensor of another shape ("shape": for the Conv1D weight the shape of the
\* Linear), the tensor under another name ("renamed"), or no tensor
\* ("absent"); the mask buffers are there or not
Variants == {"ok", "shape", "renamed", "absent"}

HfItem(k, v, okShape, otherShape) ==
    IF v = "absent" THEN <<>>
    ELSE <<[key |-> IF v = "renamed" THEN Append(k, "orig") ELSE k,
            shape |-> IF v = "shape" THEN otherShape ELSE okShape]>>

Checkpoint(v1, v2, v3, buffers) ==
    HfItem(wte_weight, v1, <<vocab_size, n_embd>>, <<vocab_size + 1, n_embd>>)
    \o (IF buffers
        THEN <<[key |-> attn_bias, shape |-> <<1, 1, 2, 2>>],
               [key |-> attn_masked_bias, shape |-> <<>>]>>
        ELSE <<>>)
    \o HfItem(c_attn_weight, v2, <<n_embd, 3 * n_embd>>, <<3 * n_embd, n_embd>>)
    \o HfItem(c_attn_bias, v3, <<3 * n_embd>>, <<3 * n_embd + 1>>)

ImportInit ==
    /\ imp_pc = "start"
    /\ sd = ModelStateDict
    /\ sd_keys = <<>>
    /\ \E v1 \in Variants, v2 \in Variants, v3 \in Variants, buffers \in BOOLEAN :
           sd_hf = Checkpoint(v1, v2, v3, buffers)
    /\ sd_keys_hf = <<>>
    /\ imp_i = 0
    /\ imp_error = "none"

\* the lists of keys, and the assertion on their lengths
FilterKeys ==
    /\ imp_pc = "start"
    /\ sd_keys' = Discard(Keys(sd), <<"attn", "bias">>)
    /\ sd_keys_hf' = Discard(Discard(Keys(sd_hf), <<"attn", "masked_bias">>),
                             <<"attn", "bias">>)
    /\ IF Len(sd_keys_hf') = Len(sd_keys')
       THEN imp_pc' = "for" /\ imp_i' = 1 /\ UNCHANGED imp_error
       ELSE /\ imp_pc' = "aborted"
            /\ imp_error' = "AssertionError: mismatched keys"
            /\ UNCHANGED imp_i
    /\ UNCHANGED <<sd, sd_hf>>
    /\ UNCHANGED <<loaderVars, lrVars, trainVars>>

\* one turn of for k in sd_keys_hf: the assertion on the shapes of k, then
\* the copy of k
CopyKey ==
    /\ imp_pc = "for"
    /\ imp_i <= Len(sd_keys_hf)
    /\ LET k == sd_keys_hf[imp_i] IN
         IF k \notin KeySet(sd)
         THEN /\ imp_pc' = "aborted" /\ imp_error' = "KeyError"
              /\ UNCHANGED <<sd, imp_i>>
         ELSE IF ~ShapeAsserted(k)
         THEN /\ imp_pc' = "aborted" /\ imp_error' = "AssertionError"
              /\ UNCHANGED <<sd, imp_i>>
         ELSE /\ sd' = CopyInto(sd, k)
              /\ imp_i' = imp_i + 1
              /\ UNCHANGED <<imp_pc, imp_error>>
    /\ UNCHANGED <<sd_keys, sd_hf, sd_keys_hf>>
    /\ UNCHANGED <<loaderVars, lrVars, trainVars>>

\* return model
ReturnModel ==
    /\ imp_pc = "for"
    /\ imp_i > Len(sd_keys_hf)
    /\ imp_pc' = "returned"
    /\ UNCHANGED <<sd, sd_keys, sd_hf, sd_keys_hf, imp_i, imp_error>>
    /\ UNCHANGED <<loaderVars, lrVars, trainVars>>

InitImport == ImportInit /\ LoaderIdle /\ LrIdle /\ TrainIdle

NextImport ==
    \/ FilterKeys
    \/ CopyKey
    \/ ReturnModel

SpecImport == InitImport /\ [][NextImport]_vars

-----------------------------------------------------------------------------
(* Claims about the import *)

\* the target tensors the import wrote to
Overwritten == {sd[j].key : j \in {i \in 1..Len(sd) : sd[i].data # Fresh}}

\* the parameters of a state dict: its keys but those of the mask buffers
ParamKeys(d) ==
    {k \in KeySet(d) : ~EndsWith(k, <<"attn", "bias">>)
                       /\ ~EndsWith(k, <<"attn", "masked_bias">>)}

\* the tensor of k in the checkpoint fits the tensor of k in the model, a
\* Conv1D weight being the transpose of the Linear weight
Fits(k) ==
    /\ k \in KeySet(sd_hf) /\ k \in KeySet(sd)
    /\ Item(sd, k).shape =
           IF \E w \in transposed : EndsWith(k, w)
           THEN Reverse(Item(sd_hf, k).shape) ELSE Item(sd_hf, k).shape

Compatible ==
    /\ ParamKeys(sd_hf) = ParamKeys(sd)
    /\ \A k \in ParamKeys(sd) : Fits(k)

\* C9, as stated: the equality of the key sets and of the shapes is
\* established before any tensor is copied, so that an import that a
\* mismatch aborts has overwritten no target parameter
C9_ChecksBeforeAnyCopy ==
    /\ Overwritten # {} => Compatible
    /\ imp_pc = "aborted" => Overwritten = {}

\* C9, amended: the equality of the numbers of keys is established before
\* any copy, the shapes of a key are checked right before that key is
\* copied; an import that a mismatch aborts has overwritten exactly the
\* parameters that precede the offending key in the checkpoint, each from a
\* fitting tensor, and only a compatible checkpoint is imported to the end
C9_CheckEachBeforeItsCopy ==
    /\ Overwritten # {} => Cardinality(ParamKeys(sd_hf)) = Cardinality(ParamKeys(sd))
    /\ \A k \in Overwritten :
           /\ Fits(k)
           /\ Item(sd, k).data = [from |-> k, t |-> \E w \in transposed : EndsWith(k, w)]
    /\ imp_pc \in {"for", "aborted", "returned"} /\ imp_i > 0 =>
           Overwritten = {sd_keys_hf[j] : j \in 1..(imp_i - 1)}
    /\ imp_pc = "aborted" =>
           \/ imp_i = 0 /\ Overwritten = {}
                /\ Cardinality(ParamKeys(sd_hf)) # Cardinality(ParamKeys(sd))
           \/ imp_i > 0 /\ ~Fits(sd_keys_hf[imp_i])
    /\ imp_pc = "returned" => Compatible /\ Overwritten = ParamKeys(sd)

\* an import that a mismatch aborted after it had overwritten a parameter
C9_Witness ==
    /\ imp_pc = "aborted"
    /\ Overwritten # {}
    /\ Overwritten # ParamKeys(sd)

-----------------------------------------------------------------------------
(* Claims about the loader *)

\* the batch made of the B*T tokens from position c (0-based) of shard file f
\* as input and of the B*T tokens from position c+1 as target
WindowBatch(f, c) ==
    [kind |-> "batch",
     x |-> [r \in 1..B |-> [col \in 1..T |-> TokenAt(f, c + (r - 1) * T + col - 1)]],
     y |-> [r \in 1..B |-> [col \in 1..T |-> TokenAt(f, c + (r - 1) * T + col)]]]

\* the loaded shard holds exactly B*T*num_processes + k tokens, kmin <= k < B*T+1
RolloverSized(ld, kmin) ==
    \E k \in kmin..(B * T) : Len(ld.tokens) = B * T * num_processes + k

\* next_batch on instance i returned the full window at the cursor, taken from
\* the loaded shard, and left the loader at the next shard index (wrapping)
FullBatchThenNextShard(i) ==
    /\ ret'[i] = WindowBatch(loaders[i].current_shard + 1, loaders[i].current_position)
    /\ loaders'[i].current_shard = (loaders[i].current_shard + 1) % Len(disk)

\* C1 as claimed: for a loader whose loaded shard holds B*T*num_processes + k
\* tokens with 0 <= k < B*T+1, every rank's next_batch returns a full batch
\* from that shard alone and leaves current_shard at the next shard index.
C1_RolloverFromZero ==
    [][\A i \in Instances :
          (NextBatch(i) /\ RolloverSized(loaders[i], 0)) => FullBatchThenNextShard(i)]_vars

\* C1 amended: the same with 1 <= k < B*T+1 (a shard of exactly
\* B*T*num_processes tokens leaves the last rank one target token short).
C1_Rollover ==
    [][\A i \in Instances :
          (NextBatch(i) /\ RolloverSized(loaders[i], 1)) => FullBatchThenNextShard(i)]_vars

\* the last rank of two read a full batch from shard file 1, which is
\* rollover-sized, and now stands at the second of two shards
C1_Witness ==
    /\ num_processes = 2 /\ Len(disk) = 2
    /\ \E k \in 1..(B * T) : Len(disk[1]) = B * T * num_processes + k
    /\ loaders[2].process_rank = 1
    /\ calls[2] = 1
    /\ ret[2] = WindowBatch(1, B * T)
    /\ loaders[2].current_shard = 1

\* every shard file holds at least B*T*num_processes + 1 tokens
AllShardsBig == \A f \in 1..Len(disk) : Len(disk[f]) >= B * T * num_processes + 1

\* C2: when every shard holds at least B*T*num_processes + 1 tokens, the cursor
\* c always leaves room for B*T+1 tokens in the loaded shard, and the next
\* next_batch returns tokens c..c+B*T-1 as input and c+1..c+B*T as target,
\* both as [B,T].
C2_CursorInBounds ==
    AllShardsBig =>
        \A i \in Instances :
            /\ loaders[i].current_position + B * T + 1 <= Len(loaders[i].tokens)
            /\ BatchOf(loaders[i]) =
                   WindowBatch(loaders[i].current_shard + 1, loaders[i].current_position)

\* a loader that stayed in its shard after a batch, with B, T > 1
C2_Witness ==
    /\ AllShardsBig /\ B = 2 /\ T = 2
    /\ calls[1] = 1 /\ ret[1].kind = "batch"
    /\ loaders[1].current_shard = 0
    /\ loaders[1].current_position = B * T * num_processes

\* the cursor of ld once advanced by B*T*num_processes
Advanced(ld) == ld.current_position + B * T * num_processes

\* what next_batch did to loader i, given whether it had to roll over
StepOfCursor(i, rollover) ==
    LET ld == loaders[i]
        nxt == (ld.current_shard + 1) % Len(disk)
    IN  IF rollover
        THEN /\ loaders'[i].current_shard = nxt
             /\ loaders'[i].tokens = disk[nxt + 1]
             /\ loaders'[i].current_position = B * T * ld.process_rank
        ELSE /\ loaders'[i].current_shard = ld.current_shard
             /\ loaders'[i].tokens = ld.tokens
             /\ loaders'[i].current_position = Advanced(ld)

\* the next read, B*T+1 tokens from the advanced cursor, exceeds the shard
NextReadExceeds(ld) == Advanced(ld) + B * T + 1 > Len(ld.tokens)

\* B*T*num_processes+1 tokens from the advanced cursor exceed the shard
NextRoundExceeds(ld) == Advanced(ld) + B * T * num_processes + 1 > Len(ld.tokens)

\* C3 as claimed: a next_batch that returns advances the cursor by
\* B*T*num_processes; the loader moves to the next shard when the next read of
\* B*T+1 tokens would exceed the loaded shard, and otherwise keeps its shard.
C3_RollWhenNextReadExceeds ==
    [][\A i \in Instances :
          (NextBatch(i) /\ ret'[i].kind = "batch")
              => StepOfCursor(i, NextReadExceeds(loaders[i]))]_vars

\* C3 amended: the loader moves to the next shard when B*T*num_processes+1
\* tokens from the advanced cursor would exceed the loaded shard (a whole round
\* of all workers), and otherwise keeps its shard and buffer.
C3_RollWhenNextRoundExceeds ==
    [][\A i \in Instances :
          (NextBatch(i) /\ ret'[i].kind = "batch")
              => StepOfCursor(i, NextRoundExceeds(loaders[i]))]_vars

\* rank 1 of two rolled over to the second shard, and rank 0 advanced in place
C3_Witness ==
    /\ num_processes = 2 /\ Len(disk) = 2
    /\ loaders[1].process_rank = 0 /\ loaders[2].process_rank = 1
    /\ calls[1] = 1 /\ ret[1].kind = "batch"
    /\ loaders[1].current_shard = 0
    /\ loaders[1].current_position = B * T * num_processes
    /\ calls[2] = 1 /\ ret[2].kind = "batch"
    /\ loaders[2].current_shard = 1
    /\ loaders[2].current_position = B * T

\* C4: two loaders with the same (B, T, process_rank, num_processes) over the
\* same shard list that made the same number of calls since construction or
\* reset are in the same state and returned the same batch; and reset leaves
\* the loader at shard 0, cursor B*T*process_rank, shard 0 loaded.
C4_Deterministic ==
    /\ \A i, j \in Instances :
          (loaders[i].process_rank = loaders[j].process_rank /\ calls[i] = calls[j])
              => (loaders[i] = loaders[j] /\ ret[i] = ret[j])
    /\ \A i \in Instances :
          calls[i] = 0 =>
              /\ loaders[i].current_shard = 0
              /\ loaders[i].current_position = B * T * loaders[i].process_rank
              /\ loaders[i].tokens = disk[1]

\* two loaders of one rank, both past a rollover to the second shard
C4_Witness ==
    /\ loaders[1].process_rank = loaders[2].process_rank
    /\ Len(disk) = 2 /\ disk[1] # disk[2]
    /\ calls[1] = 2 /\ calls[2] = 2
    /\ ret[1].kind = "batch" /\ ret[2].kind = "batch"
    /\ loaders[1].current_shard = 1 /\ loaders[2].current_shard = 1

\* the token ids of a returned input
InputTokens(batch) == {batch.x[r][col] : r \in 1..B, col \in 1..T}

\* C5: the inputs returned to two workers of different rank share no token
\* position of any shard, whatever call each of them is at.
C5_DisjointInputs ==
    \A i, j \in Instances :
        (/\ loaders[i].process_rank # loaders[j].process_rank
         /\ ret[i].kind = "batch" /\ ret[j].kind = "batch")
            => InputTokens(ret[i]) \cap InputTokens(ret[j]) = {}

\* ranks 0 and 1 each got their second batch of shard file 1
C5_Witness ==
    /\ loaders[1].process_rank = 0 /\ loaders[2].process_rank = 1
    /\ calls[1] = 2 /\ calls[2] = 2
    /\ ret[1] = WindowBatch(1, B * T * num_processes)
    /\ ret[2] = WindowBatch(1, B * T * num_processes + B * T)

\* C11: workers that made the same number of next_batch calls since reset
\* over the same shard list, none of which raised, are at the same
\* current_shard: every rank rolls over on the same call
C11_LockStepShards ==
    \A i, j \in Instances :
        (/\ calls[i] = calls[j]
         /\ ret[i] # Raised /\ ret[j] # Raised)
            => loaders[i].current_shard = loaders[j].current_shard

Init == LoaderInit /\ LrIdle /\ TrainIdle /\ ImportIdle

Next ==
    \/ \E i \in Instances : Reset(i)
    \/ \E i \in Instances : NextBatch(i)

Spec == Init /\ [][Next]_vars

====
